---- MODULE Spec2Model ----
(***************************************************************************)
(* A model of perlin_art.py: the noise-driven points (PLine), the groups   *)
(* that gate their drawing by a region (PShape), the layout (grid) and the *)
(* display / recording loop at the foot of the file.                       *)
(*                                                                         *)
(* Positions are real numbers in the program (np.float64).  Here they are  *)
(* fixed-point integers counting units of 1/Scale, so that a position can  *)
(* have a fractional part and int() is a real truncation.  Rounding error  *)
(* of the floating-point arithmetic is not modelled.  The value returned   *)
(* by noise.pnoise3 is an input of each step, drawn from NoiseVals; the    *)
(* field z of a PLine only feeds that call and is therefore left out.      *)
(***************************************************************************)
EXTENDS Integers, Sequences, FiniteSets, TLC

VARIABLES
    psquares,   \* the list of PShape objects (line 211)
    half,       \* the half-extents <<xbounds, ybounds>> the groups were built with
    capture,    \* the recording toggle (line 213)
    out,        \* the cv2.VideoWriter: "none", "open" or "released"
    written,    \* frames handed to out.write so far
    ticks,      \* completed passes over psquares (iterations of the while loop)
    pc,         \* position of the main program
    gi, li,     \* indices of the two nested for loops (lines 222 and 173)
    key,        \* the key cv2.waitKey returned in this pass (-1 before it is read)
    last,       \* what PShape.perlin_move did in the latest loop iteration of
                \* the frame being drawn
    gridArgs,   \* arguments of a call of grid()
    grid        \* what that call returned

vars == <<psquares, half, capture, out, written, ticks, pc, gi, li, key, last,
          gridArgs, grid>>

mainVars == <<psquares, half, capture, out, written, ticks, pc, gi, li, key, last>>

---------------------------------------------------------------------------
(* Bounds of the model and constants of the program *)

Scale == 2           \* fixed-point units per unit of the canvas
MaxMoves == 3        \* calls of PLine.perlin_move that are explored

CanvasRows == 1000   \* CANVAS.shape[0]
CanvasCols == 1000   \* CANVAS.shape[1]
RandLo == -10        \* np.random.randint(-10, 10)
RandHi == 10
LinesLo == 20        \* np.random.randint(20, 80)
LinesHi == 80

Fix(v) == v * Scale

\* Python's int() of a float: truncation towards zero.
IntTrunc(v) == IF v >= 0 THEN v \div Scale ELSE -((-v) \div Scale)

\* The draws of np.random.randint(lo, hi) that are explored: the two ends of
\* the half-open range lo..hi-1 and zero.
RandInt(lo, hi) == {v \in {lo, 0, hi - 1} : lo <= v /\ v < hi}

\* The values of noise.pnoise3 that are explored: -1, 0 and 1.
NoiseVals == {-Scale, 0, Scale}

\* Values of cv2.waitKey that are explored: no key (-1), 'q' (113), 'Q' (81).
Keys == {-1, 113, 81}

---------------------------------------------------------------------------
(* PLine *)

PLineInit(center, xinc, yinc) ==
    [x  |-> center[1], y  |-> center[2],
     xi |-> center[1], yi |-> center[2],
     xo |-> center[1], yo |-> center[2],
     xinc |-> Fix(xinc), yinc |-> Fix(yinc)]

\* Faulty variants of PLineMove: one that moves the anchor along with the point, and
\* one that replaces the increment by the sample instead of accumulating it.
PLineMoveAnchor(pl, px, py) ==
    [pl EXCEPT !.xinc = pl.xinc + px, !.yinc = pl.yinc + py,
               !.xi = pl.x, !.yi = pl.y, !.xo = pl.x, !.yo = pl.y,
               !.x = pl.x + pl.xinc + px, !.y = pl.y + pl.yinc + py]

PLineMoveReplace(pl, px, py) ==
    [pl EXCEPT !.xinc = px, !.yinc = py,
               !.xi = pl.x, !.yi = pl.y,
               !.x = pl.x + px, !.y = pl.y + py]

PLineMove(pl, px, py) ==
    LET xinc == pl.xinc + px
        yinc == pl.yinc + py
    IN  [pl EXCEPT !.xinc = xinc, !.yinc = yinc,
                   !.xi = pl.x,   !.yi = pl.y,
                   !.x = pl.x + xinc, !.y = pl.y + yinc]

---------------------------------------------------------------------------
(* PShape *)

PShapeInit(center, xbounds, ybounds, lines, shape, incs) ==
    [plines  |-> [i \in 1..lines |-> PLineInit(center, incs[i][1], incs[i][2])],
     xbounds |-> xbounds,
     ybounds |-> ybounds,
     shape   |-> shape]

\* Faulty variant of WithinPos: the lower bound is not tested.
WithinPosUpperOnly(position, bounds) ==
    position <= bounds[2]

\* within, registered for np.float64
WithinPos(position, bounds) ==
    position >= bounds[1] /\ position <= bounds[2]

Sq(v) == v * v

\* Faulty variant of WithinPLine: the upper ends of the rectangle are exclusive.
WithinPLineStrict(psq, pl) ==
    /\ psq.shape = "rectangle"
    /\ pl.xi >= psq.xbounds[1] /\ pl.xi < psq.xbounds[2]
    /\ pl.yi >= psq.ybounds[1] /\ pl.yi < psq.ybounds[2]

\* within, registered for PLine.  The circle branch compares
\* dx^2/a^2 + dy^2/b^2 with 1; both sides are multiplied by a^2*b^2 > 0 here.
WithinPLine(psq, pl) ==
    IF psq.shape = "rectangle"
    THEN /\ pl.xi >= psq.xbounds[1] /\ pl.xi <= psq.xbounds[2]
         /\ pl.yi >= psq.ybounds[1] /\ pl.yi <= psq.ybounds[2]
    ELSE IF psq.shape = "circle"
    THEN LET a2 == Sq(psq.xbounds[2] - psq.xbounds[1])
             b2 == Sq(psq.ybounds[2] - psq.ybounds[1])
         IN  Sq(pl.xi - pl.xo) * b2 + Sq(pl.yi - pl.yo) * a2 <= a2 * b2
    ELSE FALSE

\* CANVAS[row][col] of a numpy array: indices -n..n-1 are accepted.
ValidIndex(i, n) == -n <= i /\ i < n

NoDraw ==
    [at |-> <<>>, canvas |-> FALSE, ran |-> FALSE, region |-> FALSE,
     raised |-> FALSE, drew |-> FALSE, line |-> <<>>, row |-> 0, col |-> 0]

\* PShape.perlin_move: what one call does.  at: the position (xi, yi) it
\* tested; canvas: the canvas test passed; ran: within(pline) was evaluated,
\* region: its result; row, col: the pixel read for the background; raised:
\* that read raised IndexError; drew and line: the call of cv2.line and its
\* end points.
ShapePerlinMove(psq, pl) ==
    LET canvas == /\ WithinPos(pl.xi, <<0, Fix(CanvasRows)>>)
                  /\ WithinPos(pl.yi, <<0, Fix(CanvasCols)>>)
        region == canvas /\ WithinPLine(psq, pl)
        row    == IntTrunc(pl.yi)
        col    == IntTrunc(pl.xi)
        valid  == ValidIndex(row, CanvasRows) /\ ValidIndex(col, CanvasCols)
    IN  [at     |-> <<pl.xi, pl.yi>>,
         canvas |-> canvas,
         ran    |-> canvas,
         region |-> region,
         raised |-> region /\ ~valid,
         drew   |-> region /\ valid,
         line   |-> IF region /\ valid THEN <<pl.xi, pl.yi, pl.x, pl.y>> ELSE <<>>,
         row    |-> IF region THEN row ELSE 0,
         col    |-> IF region THEN col ELSE 0]

\* The body of the for loop of PShape.__call__ for one pline.
LoopBody(psq, pl, px, py) ==
    [res |-> ShapePerlinMove(psq, pl), pline |-> PLineMove(pl, px, py)]

---------------------------------------------------------------------------
(* grid *)

\* Faulty variant of Linspace: endpoint=False.
LinspaceOpen(start, stop, num) ==
    [i \in 1..num |-> start + ((i - 1) * (stop - start)) \div num]

\* np.linspace(start, stop, num); the divisions of the inputs used are exact.
Linspace(start, stop, num) ==
    [i \in 1..num |-> IF num = 1 THEN start
                      ELSE start + ((i - 1) * (stop - start)) \div (num - 1)]

\* grid(); 0 stands for None.  counts[k] is the k-th draw of
\* np.random.randint(20, 80) and incs the draws of each PLine.
Grid(a, counts, incs) ==
    IF a.n = 0 /\ ~(a.rows # 0 /\ a.columns # 0)
    THEN [outcome |-> "AssertionError", shapes |-> <<>>]
    ELSE
    LET nx == IF a.n # 0 THEN a.n ELSE a.columns
        ny == IF a.n # 0 THEN a.n ELSE a.rows
        xspace == Linspace(Fix(0 + a.margin), Fix(CanvasRows - a.margin), nx)
        yspace == Linspace(Fix(0 + a.margin), Fix(CanvasCols - a.margin), ny)
    IN  [outcome |-> "returned",
         shapes  |->
            [k \in 1..(nx * ny) |->
                LET x == xspace[((k - 1) \div ny) + 1]
                    y == yspace[((k - 1) % ny) + 1]
                IN  PShapeInit(<<x, y>>,
                               <<x - Fix(a.xbounds), x + Fix(a.xbounds)>>,
                               <<y - Fix(a.ybounds), y + Fix(a.ybounds)>>,
                               counts[k], a.shape, incs)]]

GridArgs(n, rows, columns, margin) ==
    [n |-> n, rows |-> rows, columns |-> columns, margin |-> margin,
     xbounds |-> 100, ybounds |-> 100, shape |-> "rectangle"]

\* The calls of grid() that are explored; the first is the one of line 211.
GridCalls ==
    {GridArgs(3, 0, 0, 200), GridArgs(3, 0, 0, 100), GridArgs(2, 0, 0, 200),
     GridArgs(1, 0, 0, 400), GridArgs(0, 2, 3, 200), GridArgs(0, 3, 1, 100),
     GridArgs(0, 0, 2, 200), GridArgs(0, 2, 0, 200), GridArgs(0, 0, 0, 200)}

NoGrid == [outcome |-> "pending", shapes |-> <<>>]

GridSize(a) == IF a.n # 0 THEN a.n * a.n ELSE a.rows * a.columns

InitGrid ==
    /\ gridArgs \in GridCalls
    /\ grid = NoGrid
    /\ psquares = <<>> /\ half = <<0, 0>> /\ capture = FALSE /\ out = "none"
    /\ written = 0 /\ ticks = 0 /\ pc = "done" /\ gi = 0 /\ li = 0
    /\ key = -1 /\ last = NoDraw

CallGrid ==
    /\ grid.outcome = "pending"
    /\ \E d \in RandInt(RandLo, RandHi) :
       \E counts \in [1..GridSize(gridArgs) -> {LinesLo, LinesHi - 1}] :
          grid' = Grid(gridArgs, counts, [i \in 1..LinesHi |-> <<d, d>>])
    /\ UNCHANGED <<gridArgs, mainVars>>

NextGrid == CallGrid

SpecGrid == InitGrid /\ [][NextGrid]_vars

---------------------------------------------------------------------------
(* The main program: lines 211 to 237 *)

\* cv2.waitKey(delay) & 0xFF == ord('q')
IsQuit(k) == (k % 256) = 113

\* Faulty variant of ReleaseWriter: the writer is left open.
ReleaseWriterSkipped(w) == w

\* out.release()
ReleaseWriter(w) == "released"

\* out.write(CANVAS)
WriteFrame(n) == n + 1

\* A group built the way grid() builds it (line 206).
MkShape(c, lines, incs) ==
    PShapeInit(c.center,
               <<c.center[1] - c.half[1], c.center[1] + c.half[1]>>,
               <<c.center[2] - c.half[2], c.center[2] + c.half[2]>>,
               lines, c.shape, incs)

\* The groups that are explored: a rectangle at the corner of the canvas whose
\* y coordinate has a fractional part, of one or two points; the rectangle
\* grid(n=3, margin=0) anchors on the edge of the canvas; an ellipse; and a
\* group of a kind the program does not know.
ShapeConfigs ==
    {[center |-> <<Fix(CanvasRows), Fix(500)>>, half |-> <<Fix(100), Fix(100)>>,
      shape |-> "rectangle", lines |-> {1}],
     [center |-> <<Fix(991), Fix(4) + 1>>, half |-> <<Fix(10), Fix(10)>>,
      shape |-> "rectangle", lines |-> {1, 2}],
     [center |-> <<Fix(500), Fix(500)>>, half |-> <<Fix(10), Fix(5)>>,
      shape |-> "circle", lines |-> {1}],
     [center |-> <<Fix(500), Fix(500)>>, half |-> <<Fix(10), Fix(10)>>,
      shape |-> "triangle", lines |-> {1}]}

\* The group of the program as written: grid(n=3, margin=200), of which one
\* group is followed (groups share no state but the pixels of the canvas).
MainArgs == GridArgs(3, 0, 0, 200)

MainConfigs ==
    LET g == Grid(MainArgs, [k \in 1..GridSize(MainArgs) |-> 1],
                  [i \in 1..1 |-> <<0, 0>>]).shapes
    IN  {[center |-> <<g[k].plines[1].xo, g[k].plines[1].yo>>,
          half   |-> <<Fix(MainArgs.xbounds), Fix(MainArgs.ybounds)>>,
          shape  |-> g[k].shape,
          lines  |-> {1}] : k \in DOMAIN g}

\* capture = True (line 213)
Capture == TRUE

InitWith(configs) ==
    /\ \E c \in configs : \E n \in c.lines :
       \E incs \in [1..n -> RandInt(RandLo, RandHi) \X RandInt(RandLo, RandHi)] :
          /\ psquares = <<MkShape(c, n, incs)>>
          /\ half = c.half
    /\ capture = Capture
    /\ out = IF capture THEN "open" ELSE "none"
    /\ written = 0 /\ ticks = 0 /\ pc = "loop" /\ gi = 0 /\ li = 0
    /\ key = -1 /\ last = NoDraw
    /\ gridArgs = MainArgs /\ grid = NoGrid

Init == InitWith(ShapeConfigs)

InitMain == InitWith(MainConfigs)

RECURSIVE TotalLines(_)
TotalLines(shapes) ==
    IF shapes = <<>> THEN 0
    ELSE Len(Head(shapes).plines) + TotalLines(Tail(shapes))

\* while True: _CANVAS = CANVAS.copy(); for psquare in psquares
\* A pass is explored when all of its moves fit in MaxMoves.
LoopTop ==
    /\ pc = "loop"
    /\ (ticks + 1) * TotalLines(psquares) <= MaxMoves
    /\ pc' = "shapes" /\ gi' = 1 /\ li' = 1
    /\ key' = -1
    /\ UNCHANGED <<psquares, half, capture, out, written, ticks, last,
                   gridArgs, grid>>

\* One iteration of the for loop of PShape.__call__, inside the for loop of
\* line 222.  An IndexError ends the program.
Iterate ==
    /\ pc = "shapes"
    /\ \E px \in NoiseVals : \E py \in NoiseVals :
        LET psq == psquares[gi]
            b   == LoopBody(psq, psq.plines[li], px, py)
        IN  /\ last' = b.res
            /\ IF b.res.raised
               THEN /\ pc' = "error"
                    /\ UNCHANGED <<psquares, gi, li>>
               ELSE /\ psquares' = [psquares EXCEPT ![gi].plines[li] = b.pline]
                    /\ IF li < Len(psq.plines)
                       THEN /\ li' = li + 1 /\ UNCHANGED <<gi, pc>>
                       ELSE IF gi < Len(psquares)
                       THEN /\ gi' = gi + 1 /\ li' = 1 /\ UNCHANGED pc
                       ELSE /\ pc' = "show" /\ UNCHANGED <<gi, li>>
    /\ UNCHANGED <<half, capture, out, written, ticks, key, gridArgs, grid>>

\* addWeighted, imshow and, when recording, out.write
Show ==
    /\ pc = "show"
    /\ written' = IF capture THEN WriteFrame(written) ELSE written
    /\ ticks' = ticks + 1
    /\ pc' = "waitkey"
    /\ last' = NoDraw
    /\ UNCHANGED <<psquares, half, capture, out, gi, li, key, gridArgs, grid>>

\* if cv2.waitKey(delay) & 0xFF == ord('q'): break
WaitKey ==
    /\ pc = "waitkey"
    /\ \E k \in Keys :
        /\ key' = k
        /\ pc' = IF IsQuit(k) THEN "after" ELSE "loop"
    /\ UNCHANGED <<psquares, half, capture, out, written, ticks, gi, li, last,
                   gridArgs, grid>>

\* if capture: out.release(); cv2.destroyAllWindows()
Finish ==
    /\ pc = "after"
    /\ out' = IF capture THEN ReleaseWriter(out) ELSE out
    /\ pc' = "done"
    /\ UNCHANGED <<psquares, half, capture, written, ticks, gi, li, key, last,
                   gridArgs, grid>>

Next == LoopTop \/ Iterate \/ Show \/ WaitKey \/ Finish

Spec == Init /\ [][Next]_vars

SpecMain == InitMain /\ [][Next]_vars

---------------------------------------------------------------------------
(* Properties *)

\* The group and the point the next iteration of the loops works on.
CurShape == psquares[gi]
CurLine  == psquares[gi].plines[li]

\* The canvas of the specification: [0, 1000] on both axes.
InCanvas(px, py) ==
    /\ 0 <= px /\ px <= Fix(CanvasRows)
    /\ 0 <= py /\ py <= Fix(CanvasCols)

\* Containment as the specification words it, from the anchor of the point
\* and the half-extents the region was built with.
RectClaim(pl, h) ==
    /\ pl.xo - h[1] <= pl.xi /\ pl.xi <= pl.xo + h[1]
    /\ pl.yo - h[2] <= pl.yi /\ pl.yi <= pl.yo + h[2]

EllipseClaim(pl, h) ==
    Sq(pl.xi - pl.xo) * Sq(h[2]) + Sq(pl.yi - pl.yo) * Sq(h[1])
        <= Sq(h[1]) * Sq(h[2])

\* C1: in an iteration of PShape.__call__ no draw instruction is emitted for
\* a point whose previous position (xi, yi) is outside the canvas
\* [0,1000]x[0,1000], whatever its current position and its region.
C1_NoDrawOutsideCanvas ==
    [][(pc = "shapes" /\ ~InCanvas(CurLine.xi, CurLine.yi)) => ~last'.drew]_vars

\* A point whose previous position is outside the canvas and inside its
\* region was examined and not drawn.
C1_Witness ==
    /\ pc \in {"shapes", "show"}
    /\ last.at # <<>>
    /\ ~InCanvas(last.at[1], last.at[2])
    /\ last.at[1] >= psquares[1].xbounds[1] /\ last.at[1] <= psquares[1].xbounds[2]
    /\ last.at[2] >= psquares[1].ybounds[1] /\ last.at[2] <= psquares[1].ybounds[2]
    /\ psquares[1].shape = "rectangle"
    /\ ~last.drew

\* C2: for an ellipse ('circle') region the containment check is true iff
\* (xi-xo)^2/half_width^2 + (yi-yo)^2/half_height^2 <= 1: the half-extents
\* are the semi-axes.
C2_EllipseUsesHalfExtents ==
    \A g \in DOMAIN psquares : \A i \in DOMAIN psquares[g].plines :
        psquares[g].shape = "circle" =>
            (WithinPLine(psquares[g], psquares[g].plines[i])
                <=> EllipseClaim(psquares[g].plines[i], half))

\* C3: for a rectangle region centred at the anchor the containment check is
\* true iff xi is in [xo - half_width, xo + half_width] and yi is in
\* [yo - half_height, yo + half_height], all four ends inclusive.
C3_RectangleInclusive ==
    \A g \in DOMAIN psquares : \A i \in DOMAIN psquares[g].plines :
        psquares[g].shape = "rectangle" =>
            (WithinPLine(psquares[g], psquares[g].plines[i])
                <=> RectClaim(psquares[g].plines[i], half))

\* The check ran on a point on the left edge of its rectangle and held.
C3_Witness ==
    /\ pc \in {"shapes", "show"}
    /\ psquares[1].shape = "rectangle"
    /\ last.ran /\ last.region
    /\ last.at[1] = psquares[1].plines[1].xo - half[1]

\* C4: with a region kind that is neither 'rectangle' nor 'circle' the
\* containment check ends in an error instead of returning a boolean.
C4_UnsupportedKindFails ==
    (/\ psquares # <<>>
     /\ psquares[1].shape \notin {"rectangle", "circle"}
     /\ last.ran) => pc = "error"

\* C5: grid(n=3, margin=200) returns 9 groups, one per anchor of
\* {200,500,800} x {200,500,800}, each with its region centred on the anchor
\* with the given half-extents, all its points at the anchor, and a number
\* of points c with 20 <= c < 80.
C5_GridLayout ==
    (gridArgs = MainArgs /\ grid.outcome # "pending") =>
        /\ grid.outcome = "returned"
        /\ Len(grid.shapes) = 9
        /\ {<<grid.shapes[k].plines[1].xo, grid.shapes[k].plines[1].yo>> :
                k \in DOMAIN grid.shapes}
             = {Fix(200), Fix(500), Fix(800)} \X {Fix(200), Fix(500), Fix(800)}
        /\ \A k \in DOMAIN grid.shapes :
             LET s == grid.shapes[k]
                 ax == s.plines[1].xo
                 ay == s.plines[1].yo
             IN  /\ s.xbounds = <<ax - Fix(gridArgs.xbounds), ax + Fix(gridArgs.xbounds)>>
                 /\ s.ybounds = <<ay - Fix(gridArgs.ybounds), ay + Fix(gridArgs.ybounds)>>
                 /\ 20 <= Len(s.plines) /\ Len(s.plines) < 80
                 /\ \A i \in DOMAIN s.plines :
                      LET p == s.plines[i]
                      IN  /\ p.x = ax /\ p.xi = ax /\ p.xo = ax
                          /\ p.y = ay /\ p.yi = ay /\ p.yo = ay

C5_Witness ==
    /\ gridArgs = MainArgs
    /\ grid.outcome = "returned"
    /\ Len(grid.shapes[1].plines) = 20
    /\ Len(grid.shapes[9].plines) = 79

\* C6: no step changes the anchor (xo, yo) of a point or the bounds of the
\* region of a group.
C6_AnchorFixed ==
    [][\A g \in DOMAIN psquares :
          /\ psquares'[g].xbounds = psquares[g].xbounds
          /\ psquares'[g].ybounds = psquares[g].ybounds
          /\ psquares'[g].shape = psquares[g].shape
          /\ \A i \in DOMAIN psquares[g].plines :
                /\ psquares'[g].plines[i].xo = psquares[g].plines[i].xo
                /\ psquares'[g].plines[i].yo = psquares[g].plines[i].yo]_vars

\* A point that has moved away from its anchor twice, the anchor still the
\* centre of the region.
C6_Witness ==
    /\ ticks >= 2
    /\ LET p == psquares[1].plines[1]
       IN  /\ p.x # p.xo /\ p.xi # p.xo
           /\ 2 * p.xo = psquares[1].xbounds[1] + psquares[1].xbounds[2]
           /\ 2 * p.yo = psquares[1].ybounds[1] + psquares[1].ybounds[2]

\* C7: with recording enabled the loop is left only when waitKey returns
\* 'q' and goes on otherwise, the program ends only through that exit, the
\* writer is released when it ends, and no frame is written after the
\* release.
C7_ReleaseOnQuit ==
    [][/\ (pc = "waitkey" => (pc' = "after" <=> IsQuit(key')))
       /\ (pc = "waitkey" /\ ~IsQuit(key') => pc' = "loop")
       /\ (pc' = "after" => pc = "waitkey")
       /\ pc' # "error"
       /\ (pc' = "done" /\ capture => out' = "released")
       /\ (out = "released" => written' = written)]_vars

\* The program ended on 'q' after it wrote frames, the writer released.
C7_Witness ==
    /\ pc = "done" /\ capture /\ IsQuit(key)
    /\ written >= 2 /\ out = "released"

\* C8: in every iteration of PShape.__call__ the segment, when one is drawn,
\* is the one of the fields before the advance (at the anchor in the first
\* pass, the displacement of the previous advance later), and the point is
\* then advanced exactly once, drawn or not.
C8_DrawThenAdvanceOnce ==
    [][pc = "shapes" =>
        LET pl  == CurLine
            pl2 == psquares'[gi].plines[li]
        IN  /\ last'.drew => last'.line = <<pl.xi, pl.yi, pl.x, pl.y>>
            /\ (last'.drew /\ ticks = 0) => last'.line = <<pl.xo, pl.yo, pl.xo, pl.yo>>
            /\ (last'.drew /\ ticks > 0) =>
                    /\ last'.line[3] - last'.line[1] = pl.xinc
                    /\ last'.line[4] - last'.line[2] = pl.yinc
            /\ pl2.xi = pl.x /\ pl2.yi = pl.y
            /\ pl2.x - pl2.xi = pl2.xinc /\ pl2.y - pl2.yi = pl2.yinc
            /\ \A j \in DOMAIN CurShape.plines :
                  j # li => psquares'[gi].plines[j] = CurShape.plines[j]]_vars

\* C9: an advance adds the samples to the increments, copies the position
\* to the previous position and adds the new increments to the position,
\* without clamping; so x - xi = xinc and y - yi = yinc afterwards.
C9_AdvanceAccumulates ==
    [][(pc = "shapes" /\ pc' # "error") =>
        LET pl  == CurLine
            pl2 == psquares'[gi].plines[li]
        IN  /\ (pl2.xinc - pl.xinc) \in NoiseVals
            /\ (pl2.yinc - pl.yinc) \in NoiseVals
            /\ pl2.xi = pl.x /\ pl2.yi = pl.y
            /\ pl2.x = pl.x + pl2.xinc /\ pl2.y = pl.y + pl2.yinc
            /\ pl2.x - pl2.xi = pl2.xinc /\ pl2.y - pl2.yi = pl2.yinc
            /\ pl2.xo = pl.xo /\ pl2.yo = pl.yo]_vars

\* A point advanced more than once to a position beyond the canvas and
\* beyond its region.
C9_Witness ==
    /\ ticks >= 2
    /\ LET p == psquares[1].plines[1]
       IN  /\ p.x > Fix(CanvasRows) /\ p.x > psquares[1].xbounds[2]
           /\ p.x - p.xi = p.xinc /\ p.xinc # 0
           /\ p.xi # p.xo

\* C10: whenever the background pixel is read for a draw, row int(yi) and
\* column int(xi) are indices of the 1000x1000 frame buffer.
C10_PixelIndexValid ==
    last.region =>
        /\ 0 <= last.row /\ last.row < CanvasRows
        /\ 0 <= last.col /\ last.col < CanvasCols

====
